---- MODULE Spec2Model ----
(***************************************************************************)
(* A model of horizon-sky: the altitude corrections (correction.ts), the   *)
(* gradient assembler (gradient.ts), the sun-times cache and the ramp      *)
(* correction (sunTimes.ts), computeSky (index.ts) and the realtimeSky     *)
(* generator (realtime.ts).                                                *)
(*                                                                         *)
(* Numbers.  The code computes in IEEE doubles; the model computes in      *)
(* exact rationals [n |-> numerator, d |-> denominator > 0], reduced.      *)
(* An angle in radians is represented by its coefficient of DEG_TO_RAD     *)
(* (= PI / 180): the model value 20 stands for 20 * DEG_TO_RAD radians,    *)
(* so `altitude / DEG_TO_RAD` is that coefficient and `x * DEG_TO_RAD` is  *)
(* the angle whose coefficient is x.  Times are minutes since the epoch.   *)
(***************************************************************************)
EXTENDS Integers, Sequences, FiniteSets, TLC

----------------------------------------------------------------------------
(* Exact rational arithmetic *)

Abs(x) == IF x < 0 THEN -x ELSE x

RECURSIVE GCD(_, _)
GCD(a, b) == IF b = 0 THEN a ELSE GCD(b, a % b)

R(n, d) ==
    LET g == GCD(Abs(n), Abs(d))
        s == IF d < 0 THEN -1 ELSE 1
    IN  [n |-> s * (n \div g), d |-> s * (d \div g)]

Int2R(k) == [n |-> k, d |-> 1]

LCM(a, b) == (a \div GCD(a, b)) * b

RAdd(x, y) ==
    LET l == LCM(x.d, y.d)
    IN  R(x.n * (l \div x.d) + y.n * (l \div y.d), l)

RNeg(x) == [n |-> -x.n, d |-> x.d]

RSub(x, y) == RAdd(x, RNeg(y))

RMul(x, y) ==
    LET g1 == GCD(Abs(x.n), y.d)
        g2 == GCD(Abs(y.n), x.d)
    IN  IF x.n = 0 \/ y.n = 0 THEN Int2R(0)
        ELSE R((x.n \div g1) * (y.n \div g2), (x.d \div g2) * (y.d \div g1))

RDiv(x, y) == RMul(x, IF y.n < 0 THEN [n |-> -y.d, d |-> -y.n] ELSE [n |-> y.d, d |-> y.n])

RLt(x, y) ==
    LET l == LCM(x.d, y.d)
    IN  x.n * (l \div x.d) < y.n * (l \div y.d)

RLe(x, y) == ~RLt(y, x)

RMax(x, y) == IF RLt(x, y) THEN y ELSE x

RMin(x, y) == IF RLt(y, x) THEN y ELSE x

----------------------------------------------------------------------------
(* Bounds of the checked input domains *)

\* altitudes are drawn from the grid of 1/AltGrid degree
AltGrid == 2

\* and range over [-MaxAltDeg, MaxAltDeg] degrees
MaxAltDeg == 90

AltitudeInputs == { R(k, AltGrid) : k \in (-MaxAltDeg * AltGrid)..(MaxAltDeg * AltGrid) }

----------------------------------------------------------------------------
(* correction.ts *)

\* x * x * (3 - 2 * x)
SmoothStep(t) == RMul(RMul(t, t), RSub(Int2R(3), RMul(Int2R(2), t)))

\* const t = Math.max(0, (-12 - altDeg) / 18); return (11.0 * (1 - t)) * DEG_TO_RAD
DeepTwilightOffset(altDeg) ==
    LET t == RMax(Int2R(0), RDiv(RSub(Int2R(-12), altDeg), Int2R(18)))
    IN  RMul(Int2R(11), RSub(Int2R(1), t))

\* return 2.0 * DEG_TO_RAD
HighSunOffset == Int2R(2)

\* the twilight branch rising six times as far
TwilightOffsetSteep(altDeg) ==
    LET t == RDiv(RSub(Int2R(20), altDeg), Int2R(26))
    IN  RAdd(Int2R(2), RMul(SmoothStep(t), Int2R(36)))

\* const t = (20 - altDeg) / 26; return (2.0 + smoothT * 6.0) * DEG_TO_RAD
TwilightOffset(altDeg) ==
    LET t == RDiv(RSub(Int2R(20), altDeg), Int2R(26))
    IN  RAdd(Int2R(2), RMul(SmoothStep(t), Int2R(6)))

\* the civil branch starting one degree lower
CivilOffsetLowered(altDeg) ==
    LET t == RDiv(RSub(Int2R(-6), altDeg), Int2R(6))
    IN  RAdd(Int2R(7), RMul(SmoothStep(t), Int2R(3)))

\* const t = (-6 - altDeg) / 6; return (8.0 + smoothT * 3.0) * DEG_TO_RAD
CivilOffset(altDeg) ==
    LET t == RDiv(RSub(Int2R(-6), altDeg), Int2R(6))
    IN  RAdd(Int2R(8), RMul(SmoothStep(t), Int2R(3)))

getMultipleScatteringOffset(altitude) ==
    LET altDeg == altitude
    IN  IF RLt(Int2R(20), altDeg) THEN HighSunOffset
        ELSE IF RLt(Int2R(-6), altDeg) THEN TwilightOffset(altDeg)
        ELSE IF RLt(Int2R(-12), altDeg) THEN CivilOffset(altDeg)
        ELSE DeepTwilightOffset(altDeg)

\* Bortle scale -> brightness offset in degrees (tenths: 0.1 is R(1, 10))
LIGHT_POLLUTION_OFFSETS ==
    [b \in 1..9 |->
        CASE b = 1 -> R(0, 10)
          [] b = 2 -> R(1, 10)
          [] b = 3 -> R(2, 10)
          [] b = 4 -> R(10, 10)
          [] b = 5 -> R(20, 10)
          [] b = 6 -> R(30, 10)
          [] b = 7 -> R(40, 10)
          [] b = 8 -> R(50, 10)
          [] b = 9 -> R(60, 10)]

\* LIGHT_POLLUTION_OFFSETS[bortle] ?? 0, minus 3 degrees
getLightPollutionAltitude(bortle) ==
    LET offsetDeg == IF bortle \in DOMAIN LIGHT_POLLUTION_OFFSETS
                     THEN LIGHT_POLLUTION_OFFSETS[bortle] ELSE Int2R(0)
    IN  RSub(offsetDeg, Int2R(3))

----------------------------------------------------------------------------
(* gradient.ts *)

\* metres
GROUND_RADIUS == 6360000

TOP_RADIUS == 6460000

SAMPLES == 32

\* Math.round(x): the nearest integer, halves rounded up
MathRound(x) == (2 * x.n + x.d) \div (2 * x.d)

\* Math.round(percent * 100) / 100
RoundPercent(percent) == R(MathRound(RMul(percent, Int2R(100))), 100)

\* Whether intersectSphere(p, d, r) returns a distance that is not null and
\* is > 0, decided from the signs of b = dot(p, d) and c = dot(p, p) - r ** 2
\* (the roots themselves are irrational).  discr = b^2 - c.
\*   c < 0: discr > b^2, the near root -b - sqrt(discr) is negative and the
\*          far root -b + sqrt(discr) is returned, which is positive;
\*   c = 0: sqrt(discr) = |b|; for b > 0 the near root -2b is negative and
\*          the far root 0 is returned; for b <= 0 the near root 0 is returned;
\*   c > 0, b >= 0: null when discr < 0, else both roots are <= 0.
\* The remaining case (c > 0, b < 0: a ray from outside towards the sphere)
\* needs the magnitude of discr and no caller reaches it.
intersectSpherePositive(bSign, c) ==
    CASE c < 0 -> TRUE
      [] c = 0 -> FALSE
      [] c > 0 /\ bSign >= 0 -> FALSE

\* the view samples of the loop `for (let i = 0; i < SAMPLES; i++)`
ViewSamples == 0..(SAMPLES - 1)

\* const s = i / (SAMPLES - 1)
ViewS(i) == R(i, SAMPLES - 1)

\* the percent running the other way: s * 100
SamplePercentUpward(s) == RMul(s, Int2R(100))

\* const percent = (1 - s) * 100
SamplePercent(s) == RMul(RSub(Int2R(1), s), Int2R(100))

\* tExitTop !== null && tExitTop > 0, for cameraPosition = [0, GROUND_RADIUS, 0]
\* and viewDirection = norm([0, s, focalZ]): b = GROUND_RADIUS * s / |v| has
\* the sign of s, and c = GROUND_RADIUS^2 - TOP_RADIUS^2 (computed in km^2,
\* which has the same sign and stays within TLC's integers).
ViewExitsTop(i) ==
    LET gKm == GROUND_RADIUS \div 1000
        tKm == TOP_RADIUS \div 1000
    IN  intersectSpherePositive(IF i > 0 THEN 1 ELSE 0, gKm * gKm - tKm * tKm)

\* The colour of one view sample.  The scattering integral and the tone
\* mapping (exp, acos, pow) are not computed: the colour is represented by
\* what it is a function of, the view sample and the altitude, and by
\* whether the in-scattered radiance was integrated or left at [0, 0, 0].
SampleRgb(altitude, i) ==
    [view |-> i, altitude |-> altitude,
     inscattered |-> IF ViewExitsTop(i) THEN "integrated" ELSE "zero"]

\* stops.push({ percent, rgb })
SampleStop(altitude, i) ==
    [percent |-> SamplePercent(ViewS(i)), rgb |-> SampleRgb(altitude, i)]

RECURSIVE PushedStops(_, _)
PushedStops(altitude, i) ==
    IF i \notin ViewSamples THEN <<>>
    ELSE <<SampleStop(altitude, i)>> \o PushedStops(altitude, i + 1)

\* the comparator with its operands exchanged: b.percent - a.percent
ComparePercentDescending(a, b) == RSub(b.percent, a.percent)

\* the comparator of stops.sort: (a, b) => a.percent - b.percent, negative
\* when a sorts before b
ComparePercent(a, b) == RSub(a.percent, b.percent)

\* insert x into the sorted sequence after every element that does not sort
\* after it (Array.prototype.sort is stable)
RECURSIVE InsertStop(_, _)
InsertStop(sorted, x) ==
    IF sorted = <<>> THEN <<x>>
    ELSE IF ComparePercent(x, Head(sorted)).n < 0 THEN <<x>> \o sorted
    ELSE <<Head(sorted)>> \o InsertStop(Tail(sorted), x)

RECURSIVE SortStops(_)
SortStops(stops) ==
    IF stops = <<>> THEN <<>>
    ELSE InsertStop(SortStops(SubSeq(stops, 1, Len(stops) - 1)), stops[Len(stops)])

\* the other end of the array: stops[stops.length - 1]
TopStopFromEnd(stops) == stops[Len(stops)]

\* topColor: stops[0].rgb
TopStop(stops) == stops[1]

\* bottomColor: stops[stops.length - 1].rgb
BottomStop(stops) == stops[Len(stops)]

\* `rgb(...) P%` for each stop, joined in order
ColorStops(stops) ==
    [k \in 1..Len(stops) |->
        [rgb |-> stops[k].rgb, percent |-> RoundPercent(stops[k].percent)]]

\* renderGradient; `stops` is the sorted local array the result is built from
renderGradient(altitude) ==
    LET stops == SortStops(PushedStops(altitude, 0))
    IN  [gradient    |-> ColorStops(stops),
         topColor    |-> TopStop(stops).rgb,
         bottomColor |-> BottomStop(stops).rgb,
         stops       |-> stops]

\* renderGradient: the exposure chosen from sunHeight = Math.sin(altitude)
EXPOSURE_DAY == 18

EXPOSURE_SUNSET == 35

EXPOSURE_NIGHT == 6

\* the night threshold -0.15 and the day threshold 0.4 of sunHeight
NIGHT_HEIGHT == R(-15, 100)

DAY_HEIGHT == R(4, 10)

\* const x = (sunHeight - -0.15) / 0.15; s = x * x * (3 - 2 * x);
\* exposure = EXPOSURE_NIGHT + s * (EXPOSURE_SUNSET - EXPOSURE_NIGHT)
ExposureTwilight(sunHeight) ==
    LET x == RDiv(RSub(sunHeight, NIGHT_HEIGHT), RNeg(NIGHT_HEIGHT))
        s == RMul(RMul(x, x), RSub(Int2R(3), RMul(Int2R(2), x)))
    IN  RAdd(Int2R(EXPOSURE_NIGHT), RMul(s, Int2R(EXPOSURE_SUNSET - EXPOSURE_NIGHT)))

\* the same blend without the smoothstep
ExposureLowSunLinear(sunHeight) ==
    LET x == RDiv(sunHeight, DAY_HEIGHT)
    IN  RAdd(Int2R(EXPOSURE_SUNSET), RMul(x, Int2R(EXPOSURE_DAY - EXPOSURE_SUNSET)))

\* const x = sunHeight / 0.4; s = x * x * (3 - 2 * x);
\* exposure = EXPOSURE_SUNSET + s * (EXPOSURE_DAY - EXPOSURE_SUNSET)
ExposureLowSun(sunHeight) ==
    LET x == RDiv(sunHeight, DAY_HEIGHT)
        s == RMul(RMul(x, x), RSub(Int2R(3), RMul(Int2R(2), x)))
    IN  RAdd(Int2R(EXPOSURE_SUNSET), RMul(s, Int2R(EXPOSURE_DAY - EXPOSURE_SUNSET)))

\* if (sunHeight <= -0.15) ... else if (sunHeight <= 0.0) ... else if
\* (sunHeight <= 0.4) ... else ...
exposure(sunHeight) ==
    IF RLe(sunHeight, NIGHT_HEIGHT) THEN Int2R(EXPOSURE_NIGHT)
    ELSE IF RLe(sunHeight, Int2R(0)) THEN ExposureTwilight(sunHeight)
    ELSE IF RLe(sunHeight, DAY_HEIGHT) THEN ExposureLowSun(sunHeight)
    ELSE Int2R(EXPOSURE_DAY)

\* the values of Math.sin(altitude) tried: a grid over [-1, 1], the branch
\* thresholds and sin(pi/6)
HeightGrid == 40

SunHeightInputs ==
    { R(k, HeightGrid) : k \in (-HeightGrid)..HeightGrid }
        \cup { NIGHT_HEIGHT, Int2R(0), DAY_HEIGHT, R(1, 2) }

----------------------------------------------------------------------------
(* sunTimes.ts *)

\* an optional value: <<>> is undefined (or false), <<v>> is the value v
Undefined == <<>>

Some(v) == <<v>>

MinutesPerDay == 1440

\* the first calendar month: day numbers 0..30 since the epoch are in 1970-01
DaysInJanuary == 31

\* [year, month, day].join("-") of the UTC calendar date of a time
UTCDateString(t) ==
    LET day == t \div MinutesPerDay
    IN  IF day \in 0..(DaysInJanuary - 1) THEN <<1970, 1, day + 1>> ELSE <<"outside 1970-01", day>>

\* const tzOffsetMinutes = Math.round(longitude / 15) * 60; the local date
LocalDateString(date, longitude) ==
    LET tzOffsetMinutes == MathRound(RDiv(longitude, Int2R(15))) * 60
    IN  UTCDateString(date + tzOffsetMinutes)

\* provider.toString(): the source text of a custom provider.  provA and
\* provC are two functions with one text: closures made by the same factory,
\* each over a table of its own
ProviderSource(provider) ==
    CASE provider = "provA" -> "async (q) => tableA(q)"
      [] provider = "provB" -> "async (q) => tableB(q)"
      [] provider = "provC" -> "async (q) => tableA(q)"
      [] OTHER -> "function"

\* provider === defaultSunTimesProvider ? "default" : provider.toString()
ProviderId(provider) ==
    IF provider = "defaultSunTimesProvider" THEN "default" ELSE ProviderSource(provider)

\* `${roundedLat},${roundedLng},${dateStr},${providerId}`
CacheKey(latitude, longitude, date, provider) ==
    <<MathRound(latitude), MathRound(longitude), LocalDateString(date, longitude),
      ProviderId(provider)>>

\* new Date("1970-01-DDTHH:MM:00+00:00").getTime(), in minutes; the string is
\* held as its fields <<year, month, day, hour, minute>>
ParseIsoDate(iso) == ((iso[3] - 1) * 24 + iso[4]) * 60 + iso[5]

\* result.sunrise instanceof Date ? result.sunrise : new Date(result.sunrise)
ToDate(v) == IF v.form = "Date" THEN v.value ELSE ParseIsoDate(v.value)

ToSunTimes(response) ==
    [sunrise |-> ToDate(response.sunrise), sunset |-> ToDate(response.sunset)]

\* 30 * 60 * 1000 ms, in minutes
TWILIGHT_MS == 30

\* the bias with its sign reversed
RampBiasRaising(elapsed) ==
    LET t == RSub(Int2R(1), R(elapsed, TWILIGHT_MS * 2))
    IN  RMul(SmoothStep(t), R(1, 2))

\* -smoothT * 0.5 * (Math.PI / 180)
RampBias(elapsed) ==
    LET t == RSub(Int2R(1), R(elapsed, TWILIGHT_MS * 2))
    IN  RNeg(RMul(SmoothStep(t), R(1, 2)))

\* correctAltitude of sunTimes.ts (the ramp); _latitude, _longitude are unused
correctAltitude(now, sunAltitude, sunTimes) ==
    LET tNow == now
        tSunrise == sunTimes.sunrise
        tSunset == sunTimes.sunset
        daySpan == tSunset - tSunrise
    IN  IF daySpan <= 0 THEN sunAltitude
        ELSE LET dayPos == R(tNow - tSunrise, daySpan)
             IN  IF RLt(dayPos, Int2R(0)) THEN
                     LET timeToSunrise == tSunrise - tNow
                     IN  IF timeToSunrise > TWILIGHT_MS * 2 THEN sunAltitude
                         ELSE RAdd(sunAltitude, RampBias(timeToSunrise))
                 ELSE IF RLt(Int2R(1), dayPos) THEN
                     LET timeSinceSunset == tNow - tSunset
                     IN  IF timeSinceSunset > TWILIGHT_MS * 2 THEN sunAltitude
                         ELSE RAdd(sunAltitude, RampBias(timeSinceSunset))
                 ELSE sunAltitude

\* correctAltitude of correction.ts (the smoothstep blend).  sunriseOffset and
\* sunsetOffset are getSunPosition(sunrise/sunset, latitude, longitude).altitude
BLEND_MS == 30

\* a number that is not one: 0 / 0, Infinity / Infinity
NaN == [n |-> 0, d |-> 0]

correctAltitudeSmoothstep(now, sunAltitude, sunTimes, sunriseOffset, sunsetOffset) ==
    LET tNow == now
        tSunrise == sunTimes.sunrise
        tSunset == sunTimes.sunset
        span == tSunset - tSunrise
        pos == IF span > 0 THEN R(tNow - tSunrise, span) ELSE R(1, 2)
        Mixed(t) == RSub(sunAltitude,
                         RAdd(sunriseOffset, RMul(t, RSub(sunsetOffset, sunriseOffset))))
    IN  IF span = 0
        THEN \* blendFrac is Infinity: neither comparison holds and x is NaN
             NaN
        ELSE LET blendFrac == R(BLEND_MS, span)
                 lower == RSub(R(1, 2), blendFrac)
                 upper == RAdd(R(1, 2), blendFrac)
             IN  IF RLe(pos, lower) THEN Mixed(Int2R(0))
                 ELSE IF RLe(upper, pos) THEN Mixed(Int2R(1))
                 ELSE LET x == RDiv(RSub(pos, lower), RMul(Int2R(2), blendFrac))
                      IN  Mixed(SmoothStep(x))

----------------------------------------------------------------------------
(* index.ts: computeSky *)

\* `rgb(${v[0]}, ${v[1]}, ${v[2]})`
vecToRgb(v) == [css |-> "rgb", of |-> v]

\* altitude += getMultipleScatteringOffset(altitude)
ApplyMultipleScattering(altitude) == RAdd(altitude, getMultipleScatteringOffset(altitude))

\* the floor left out: the altitude passes through whatever the Bortle value
ApplyLightPollutionNoFloor(altitude, bortle) == altitude

\* if (bortle !== undefined) altitude = Math.max(altitude, getLightPollutionAltitude(bortle))
ApplyLightPollution(altitude, bortle) ==
    IF bortle # Undefined THEN RMax(altitude, getLightPollutionAltitude(bortle[1]))
    ELSE altitude

\* the altitude computeSky passes to renderGradient, from the altitude it
\* holds after the sunrise/sunset step (correctedAltitude, or rawAltitude)
RenderAltitude(altitude, bortle) ==
    ApplyLightPollution(ApplyMultipleScattering(altitude), bortle)

\* the altitude of the result, were it the one that was rendered
ResultAltitudeRendered(rawAltitude, rendered) == rendered

\* altitude: rawAltitude
ResultAltitude(rawAltitude, rendered) == rawAltitude

\* the SkyResult returned; corrected and sunTimes are optional values
SkyResult(position, corrected, sunTimes, bortle) ==
    LET altitude == IF corrected # Undefined THEN corrected[1] ELSE position.altitude
        rendered == RenderAltitude(altitude, bortle)
        g == renderGradient(rendered)
    IN  [gradient          |-> g.gradient,
         topColor          |-> vecToRgb(g.topColor),
         bottomColor       |-> vecToRgb(g.bottomColor),
         altitude          |-> ResultAltitude(position.altitude, rendered),
         azimuth           |-> position.azimuth,
         correctedAltitude |-> corrected,
         sunrise           |-> IF sunTimes # Undefined THEN Some(sunTimes[1].sunrise) ELSE Undefined,
         sunset            |-> IF sunTimes # Undefined THEN Some(sunTimes[1].sunset) ELSE Undefined]

----------------------------------------------------------------------------
(* Inputs of the computeSky scenarios *)

\* concurrent computeSky calls, numbered in the order they are made
MaxTasks == 3

Tasks == 1..MaxTasks

\* 05:30, 06:00, 18:00 and 18:30 UTC of the first day
DateInputs == {330, 360, 1080, 1110}

\* two places whose coordinates round to the same integers
PlaceA == [latitude |-> R(357, 10), longitude |-> R(1397, 10)]

PlaceB == [latitude |-> R(356, 10), longitude |-> R(1399, 10)]

CoordinateInputs == { PlaceA, PlaceB }


\* sunTimes: false, or { provider }
SunTimesOptionInputs == { Undefined, Some("provA") }

\* bortle: undefined, or a Bortle value
BortleInputs == { Undefined, Some(1), Some(9) }

\* what SunCalc.getPosition may answer for a date and place
SunPositionInputs ==
    { [altitude |-> Int2R(-40), azimuth |-> Int2R(20)],
      [altitude |-> R(-5, 6), azimuth |-> Int2R(-70)],
      [altitude |-> Int2R(10), azimuth |-> Int2R(110)] }

\* what a provider may resolve with: sunrise 06:00 and sunset 18:00 as Dates
\* or as ISO strings
SunTimesResponseInputs ==
    { [sunrise |-> [form |-> "Date", value |-> 360],
       sunset  |-> [form |-> "Date", value |-> 1080]],
      [sunrise |-> [form |-> "string", value |-> <<1970, 1, 1, 6, 0>>],
       sunset  |-> [form |-> "string", value |-> <<1970, 1, 1, 18, 0>>]] }

\* the options of one computeSky call and what SunCalc answers for them
Request(date, place, sunTimesOption, bortle, position) ==
    [date |-> date, place |-> place, sunTimes |-> sunTimesOption, bortle |-> bortle,
     position |-> position]

\* one call: every combination of options
ComputeRequests ==
    { Request(date, place, sunTimesOption, bortle, position) :
        date \in DateInputs, place \in CoordinateInputs,
        sunTimesOption \in SunTimesOptionInputs, bortle \in BortleInputs,
        position \in SunPositionInputs }

Midday == [altitude |-> Int2R(10), azimuth |-> Int2R(110)]

\* concurrent calls with sunTimes enabled: two places with the same rounded
\* coordinates on one local date, and one of them on the next local date
SharedRequests ==
    { Request(360, PlaceA, Some("provA"), Undefined, Midday),
      Request(360, PlaceB, Some("provA"), Undefined, Midday),
      Request(1080, PlaceA, Some("provA"), Undefined, Midday) }

\* what the calls of the scenarios hand to the return statement of
\* computeSky: the position, and with sunTimes the corrected altitude and
\* the provider's times
SkyArguments ==
    { [position |-> position, corrected |-> Undefined, sunTimes |-> Undefined,
       bortle |-> bortle] :
        position \in SunPositionInputs, bortle \in BortleInputs }
    \cup
    { [position |-> position,
       corrected |-> Some(correctAltitude(date, position.altitude, ToSunTimes(response))),
       sunTimes |-> Some(ToSunTimes(response)), bortle |-> bortle] :
        position \in SunPositionInputs, bortle \in BortleInputs,
        date \in DateInputs, response \in SunTimesResponseInputs }

\* the SkyResult of each of them, computed once
SkyResults ==
    [a \in SkyArguments |-> SkyResult(a.position, a.corrected, a.sunTimes, a.bortle)]

\* return { gradient, topColor, bottomColor, altitude, ... } of a call
ReturnedSkyResult(position, corrected, sunTimes, bortle) ==
    SkyResults[[position |-> position, corrected |-> corrected,
                sunTimes |-> sunTimes, bortle |-> bortle]]

----------------------------------------------------------------------------
VARIABLES
    msArg,          \* getMultipleScatteringOffset: the altitude passed
    msDone,         \*   whether the call has returned
    msRet,          \*   the offset returned
    rgArg,          \* renderGradient: the altitude passed
    rgDone,         \*   whether the call has returned
    rgRet,          \*   the GradientResult returned
    tasks,          \* the computeSky calls: options, position in the code, result
    ephemeris,      \* SunCalc.getPosition's answers so far, by <<date, place>>
    cache,          \* globalThis.__sunTimesCache: cache key -> promise
    promises,       \* the promise each call created: state and value
    providerCalls,  \* the provider invocations so far
    rtSignal,       \* realtimeSky: options.signal: "none", "live" or "aborted"
    rtSunTimes,     \*   whether options.sunTimes names a provider
    rtPc,           \*   where the generator is
    rtTimer,        \*   whether the interval timer of the current wait is pending
    rtListeners,    \*   abort listeners attached to the signal
    rtCalls,        \*   computeSky calls started
    rtYields,       \*   SkyResults yielded
    rtError,        \*   the error the consumer's next() rejected with, if any
    exArg,          \* renderGradient's exposure: the sunHeight it is chosen for
    exDone,         \*   whether it has been computed
    exRet,          \*   the exposure
    caArg,          \* correctAltitude: now, the sun times and the altitudes passed
    caDone,         \*   whether the call has returned
    caRet           \*   the altitude returned

offsetVars == <<msArg, msDone, msRet>>

renderVars == <<rgArg, rgDone, rgRet>>

skyVars == <<tasks, ephemeris, cache, promises, providerCalls>>

realtimeVars == <<rtSignal, rtSunTimes, rtPc, rtTimer, rtListeners, rtCalls, rtYields, rtError>>

exposureVars == <<exArg, exDone, exRet>>

correctVars == <<caArg, caDone, caRet>>

\* the state of the functions called on their own
otherVars == <<exposureVars, correctVars>>

vars == <<offsetVars, renderVars, skyVars, realtimeVars, otherVars>>

NoGradient == [gradient |-> <<>>, topColor |-> <<>>, bottomColor |-> <<>>, stops |-> <<>>]

OffsetIdle == msArg = Int2R(0) /\ msDone = FALSE /\ msRet = Int2R(0)

RenderIdle == rgArg = Int2R(0) /\ rgDone = FALSE /\ rgRet = NoGradient

ExposureIdle == exArg = Int2R(0) /\ exDone = FALSE /\ exRet = Int2R(0)

NoTimes ==
    [now |-> 0, sunrise |-> 0, sunset |-> 0, sunAltitude |-> Int2R(0),
     sunriseOffset |-> Int2R(0), sunsetOffset |-> Int2R(0)]

CorrectIdle == caArg = NoTimes /\ caDone = FALSE /\ caRet = Int2R(0)

OtherIdle == ExposureIdle /\ CorrectIdle

\* a call not made yet
IdleTask ==
    [pc |-> "idle", date |-> 0, place |-> Undefined, sunTimes |-> Undefined,
     bortle |-> Undefined, position |-> Undefined, key |-> Undefined,
     awaiting |-> 0, creator |-> FALSE, fetched |-> Undefined,
     result |-> Undefined]

NoPromise == [state |-> "none", value |-> Undefined]

EmptyMap == [k \in {} |-> 0]

SkyIdle ==
    /\ tasks = [i \in Tasks |-> IdleTask]
    /\ ephemeris = EmptyMap
    /\ cache = EmptyMap
    /\ promises = [i \in Tasks |-> NoPromise]
    /\ providerCalls = {}

RealtimeIdle ==
    /\ rtSignal = "none"
    /\ rtSunTimes = FALSE
    /\ rtPc = "suspendedStart"
    /\ rtTimer = FALSE
    /\ rtListeners = 0
    /\ rtCalls = 0
    /\ rtYields = 0
    /\ rtError = "none"

----------------------------------------------------------------------------
(* getMultipleScatteringOffset applied to every altitude of the grid *)

InitOffset ==
    /\ msArg \in AltitudeInputs
    /\ msDone = FALSE
    /\ msRet = Int2R(0)
    /\ RenderIdle
    /\ SkyIdle
    /\ RealtimeIdle
    /\ OtherIdle

CallOffset ==
    /\ ~msDone
    /\ msDone' = TRUE
    /\ msRet' = getMultipleScatteringOffset(msArg)
    /\ UNCHANGED <<msArg, renderVars, skyVars, realtimeVars, otherVars>>

NextOffset == CallOffset

SpecOffset == InitOffset /\ [][NextOffset]_vars

----------------------------------------------------------------------------
(* renderGradient applied to every altitude of the grid *)

InitRender ==
    /\ rgArg \in AltitudeInputs
    /\ rgDone = FALSE
    /\ rgRet = NoGradient
    /\ OffsetIdle
    /\ SkyIdle
    /\ RealtimeIdle
    /\ OtherIdle

CallRender ==
    /\ ~rgDone
    /\ rgDone' = TRUE
    /\ rgRet' = renderGradient(rgArg)
    /\ UNCHANGED <<rgArg, offsetVars, skyVars, realtimeVars, otherVars>>

NextRender == CallRender

SpecRender == InitRender /\ [][NextRender]_vars

----------------------------------------------------------------------------
(* computeSky calls running concurrently over the shared sun-times cache *)

Init ==
    /\ OffsetIdle
    /\ RenderIdle
    /\ SkyIdle
    /\ RealtimeIdle
    /\ OtherIdle

\* a map that forgets what is put into it
MapPutNothing(m, k, v) == m

MapPut(m, k, v) == [x \in DOMAIN m \cup {k} |-> IF x = k THEN v ELSE m[x]]

MapDelete(m, k) == [x \in DOMAIN m \ {k} |-> m[x]]

\* computeSky up to its first await, or to its return when sunTimes is off.
\* getSunPosition answers as it did before for the same date and place.
ComputeSkyCall(i, date, place, sunTimesOption, bortle, position) ==
    LET asked == <<date, place>>
        known == asked \in DOMAIN ephemeris
        pos   == IF known THEN ephemeris[asked] ELSE position
        begun == [IdleTask EXCEPT !.date = date, !.place = Some(place),
                                  !.sunTimes = sunTimesOption, !.bortle = bortle,
                                  !.position = Some(pos)]
    IN  /\ tasks[i].pc = "idle"
        /\ \A j \in Tasks : j < i => tasks[j].pc # "idle"
        /\ known => position = ephemeris[asked]
        /\ ephemeris' = MapPut(ephemeris, asked, pos)
        /\ IF sunTimesOption = Undefined
           THEN \* no await: the call runs to its return
                /\ tasks' = [tasks EXCEPT ![i] =
                       [begun EXCEPT !.pc = "done",
                                     !.result = Some(ReturnedSkyResult(pos, Undefined, Undefined, bortle))]]
                /\ UNCHANGED <<cache, promises, providerCalls>>
           ELSE \* fetchSunTimes up to its await
                LET provider == sunTimesOption[1]
                    cacheKey == CacheKey(place.latitude, place.longitude, date, provider)
                IN  IF cacheKey \in DOMAIN cache
                    THEN \* return cache.get(cacheKey)
                         /\ tasks' = [tasks EXCEPT ![i] =
                                [begun EXCEPT !.pc = "awaitFetch", !.key = Some(cacheKey),
                                              !.awaiting = cache[cacheKey]]]
                         /\ UNCHANGED <<cache, promises, providerCalls>>
                    ELSE \* the provider is invoked and the promise cached
                         /\ providerCalls' = providerCalls \cup
                                { [task |-> i, provider |-> provider,
                                   latitude |-> place.latitude, longitude |-> place.longitude,
                                   date |-> LocalDateString(date, place.longitude)] }
                         /\ promises' = [promises EXCEPT ![i] =
                                [state |-> "pending", value |-> Undefined]]
                         /\ cache' = MapPut(cache, cacheKey, i)
                         /\ tasks' = [tasks EXCEPT ![i] =
                                [begun EXCEPT !.pc = "awaitFetch", !.key = Some(cacheKey),
                                              !.awaiting = i, !.creator = TRUE]]

\* a computeSky call made by the application
ComputeSkyBegin(i, date, place, sunTimesOption, bortle, position) ==
    /\ ComputeSkyCall(i, date, place, sunTimesOption, bortle, position)
    /\ UNCHANGED <<offsetVars, renderVars, realtimeVars, otherVars>>

\* the provider's promise resolves: the cached promise is fulfilled
ProviderResolves(p, response) ==
    /\ promises[p].state = "pending"
    /\ promises' = [promises EXCEPT ![p] =
           [state |-> "fulfilled", value |-> Some(ToSunTimes(response))]]
    /\ UNCHANGED <<tasks, ephemeris, cache, providerCalls, offsetVars, renderVars, realtimeVars, otherVars>>

\* the provider's promise rejects (or the provider throws)
ProviderRejects(p) ==
    /\ promises[p].state = "pending"
    /\ promises' = [promises EXCEPT ![p] = [state |-> "rejected", value |-> Undefined]]
    /\ UNCHANGED <<tasks, ephemeris, cache, providerCalls, offsetVars, renderVars, realtimeVars, otherVars>>

\* the invalidation left out
CatchDeletesNothing(creator) == FALSE

\* whether the call reaches `cache.delete(cacheKey)` when its promise rejects:
\* only the call that created the promise awaits it inside the try block
CatchDeletes(creator) == creator

\* fetchSunTimes after its promise settled.  The call that created the promise
\* awaited it first, so its continuation runs before those of the calls that
\* were handed the promise from the cache.
FetchSunTimesSettles(i) ==
    LET t == tasks[i]
        p == promises[t.awaiting]
    IN  /\ t.pc = "awaitFetch"
        /\ p.state \in {"fulfilled", "rejected"}
        /\ ~t.creator => tasks[t.awaiting].pc # "awaitFetch"
        /\ IF p.state = "fulfilled"
           THEN /\ tasks' = [tasks EXCEPT ![i].pc = "fetched", ![i].fetched = p.value]
                /\ UNCHANGED cache
           ELSE /\ tasks' = [tasks EXCEPT ![i].pc = "fetchFailed"]
                /\ cache' = IF CatchDeletes(t.creator) THEN MapDelete(cache, t.key[1]) ELSE cache
        /\ UNCHANGED <<ephemeris, promises, providerCalls, offsetVars, renderVars, realtimeVars, otherVars>>

\* computeSky after `await fetchSunTimes(...)`: the corrections and the render,
\* or the rejection passed on to the caller
ComputeSkyResumes(i) ==
    LET t == tasks[i]
    IN  /\ t.pc \in {"fetched", "fetchFailed"}
        /\ IF t.pc = "fetched"
           THEN LET correctedAltitude ==
                        correctAltitude(t.date, t.position[1].altitude, t.fetched[1])
                IN  tasks' = [tasks EXCEPT
                        ![i].pc = "done",
                        ![i].result = Some(ReturnedSkyResult(t.position[1], Some(correctedAltitude),
                                                             t.fetched, t.bortle))]
           ELSE tasks' = [tasks EXCEPT ![i].pc = "failed"]
        /\ UNCHANGED <<ephemeris, cache, promises, providerCalls, offsetVars, renderVars, realtimeVars, otherVars>>

\* the steps of the calls `callers` make with the given requests
SkySettles(callers) ==
    \/ \E p \in callers, response \in SunTimesResponseInputs : ProviderResolves(p, response)
    \/ \E p \in callers : ProviderRejects(p)
    \/ \E i \in callers : FetchSunTimesSettles(i)
    \/ \E i \in callers : ComputeSkyResumes(i)

SkyStep(callers, requests) ==
    \/ \E i \in callers, r \in requests :
            ComputeSkyBegin(i, r.date, r.place, r.sunTimes, r.bortle, r.position)
    \/ SkySettles(callers)

\* concurrent calls sharing the cache
Next == SkyStep(Tasks, SharedRequests)

Spec == Init /\ [][Next]_vars

\* one call, over every combination of options
NextCompute == SkyStep({1}, ComputeRequests)

SpecCompute == Init /\ [][NextCompute]_vars

----------------------------------------------------------------------------
(* two computeSky calls on one local date with three custom providers *)

KeyCallers == {1, 2}

KeyRequests ==
    { Request(360, place, Some(provider), Undefined, Midday) :
        place \in CoordinateInputs, provider \in {"provA", "provB", "provC"} }

NextKeys == SkyStep(KeyCallers, KeyRequests)

SpecKeys == Init /\ [][NextKeys]_vars

----------------------------------------------------------------------------
(* renderGradient's exposure computed for every sunHeight of the grid *)

InitExposure ==
    /\ exArg \in SunHeightInputs
    /\ exDone = FALSE
    /\ exRet = Int2R(0)
    /\ OffsetIdle
    /\ RenderIdle
    /\ SkyIdle
    /\ RealtimeIdle
    /\ CorrectIdle

CallExposure ==
    /\ ~exDone
    /\ exDone' = TRUE
    /\ exRet' = exposure(exArg)
    /\ UNCHANGED <<exArg, offsetVars, renderVars, skyVars, realtimeVars, correctVars>>

NextExposure == CallExposure

SpecExposure == InitExposure /\ [][NextExposure]_vars

----------------------------------------------------------------------------
(* correctAltitude of sunTimes.ts applied to times around sunrise and sunset *)

\* minutes between two times of the grid, and the number of grid steps
TimeStep == 15

TimeSlots == 12

TimeInputs == { k * TimeStep : k \in 0..TimeSlots }

RawAltitudeInputs == { R(-5, 6), Int2R(10) }

InitRamp ==
    /\ \E now \in TimeInputs, sunrise \in TimeInputs, sunset \in TimeInputs,
          sunAltitude \in RawAltitudeInputs :
            caArg = [NoTimes EXCEPT !.now = now, !.sunrise = sunrise, !.sunset = sunset,
                                    !.sunAltitude = sunAltitude]
    /\ caDone = FALSE
    /\ caRet = Int2R(0)
    /\ OffsetIdle
    /\ RenderIdle
    /\ SkyIdle
    /\ RealtimeIdle
    /\ ExposureIdle

CallRamp ==
    /\ ~caDone
    /\ caDone' = TRUE
    /\ caRet' = correctAltitude(caArg.now, caArg.sunAltitude,
                                [sunrise |-> caArg.sunrise, sunset |-> caArg.sunset])
    /\ UNCHANGED <<caArg, offsetVars, renderVars, skyVars, realtimeVars, exposureVars>>

NextRamp == CallRamp

SpecRamp == InitRamp /\ [][NextRamp]_vars

----------------------------------------------------------------------------
(* correctAltitude of correction.ts applied to times across the day *)

\* the sun's altitude getSunPosition gives at sunrise and at sunset
SunriseOffsetInput == R(-5, 6)

SunsetOffsetInput == R(-1, 2)

InitBlend ==
    /\ \E now \in TimeInputs, sunrise \in TimeInputs, sunset \in TimeInputs,
          sunAltitude \in RawAltitudeInputs :
            caArg = [now |-> now, sunrise |-> sunrise, sunset |-> sunset,
                     sunAltitude |-> sunAltitude,
                     sunriseOffset |-> SunriseOffsetInput,
                     sunsetOffset |-> SunsetOffsetInput]
    /\ caDone = FALSE
    /\ caRet = Int2R(0)
    /\ OffsetIdle
    /\ RenderIdle
    /\ SkyIdle
    /\ RealtimeIdle
    /\ ExposureIdle

CallBlend ==
    /\ ~caDone
    /\ caDone' = TRUE
    /\ caRet' = correctAltitudeSmoothstep(caArg.now, caArg.sunAltitude,
                    [sunrise |-> caArg.sunrise, sunset |-> caArg.sunset],
                    caArg.sunriseOffset, caArg.sunsetOffset)
    /\ UNCHANGED <<caArg, offsetVars, renderVars, skyVars, realtimeVars, exposureVars>>

NextBlend == CallBlend

SpecBlend == InitBlend /\ [][NextBlend]_vars

----------------------------------------------------------------------------
(* realtime.ts: the realtimeSky generator and its consumer *)

\* `new Date()` at the calls of one run: a morning and the evening of the
\* same UTC day, which is the next local day at the place
RealtimeDateInputs == {360, 1080}

\* the computeOptions of the run: latitude, longitude, sunTimes
RealtimePlace == PlaceA

RealtimeSunTimesOption == IF rtSunTimes THEN Some("provA") ELSE Undefined

InitRealtime ==
    /\ OffsetIdle
    /\ RenderIdle
    /\ SkyIdle
    /\ OtherIdle
    /\ rtSignal \in {"none", "live"}
    /\ rtSunTimes \in BOOLEAN
    /\ rtPc = "suspendedStart"
    /\ rtTimer = FALSE
    /\ rtListeners = 0
    /\ rtCalls = 0
    /\ rtYields = 0
    /\ rtError = "none"

\* while (!signal?.aborted)
LoopContinues(signal) == signal # "aborted"

\* if (err instanceof DOMException && err.name === "AbortError") return
CatchSwallows(err) == err = "AbortError"

\* the generator at the head of its loop: it returns, or reads the clock and
\* calls computeSky, which runs up to its first await (with sunTimes: the
\* cache lookup, the provider invocation and cache.set of fetchSunTimes),
\* and awaits it.  The call is the next of the computeSky calls.
LoopHead ==
    IF LoopContinues(rtSignal)
    THEN /\ rtCalls + 1 \in Tasks
         /\ \E date \in RealtimeDateInputs :
               /\ rtCalls > 0 => tasks[rtCalls].date <= date
               /\ ComputeSkyCall(rtCalls + 1, date, RealtimePlace,
                                 RealtimeSunTimesOption, Undefined, Midday)
         /\ rtCalls' = rtCalls + 1
         /\ rtPc' = "computing"
    ELSE /\ rtPc' = "completed"
         /\ UNCHANGED <<rtCalls, skyVars>>

\* the consumer's first next(): the generator body starts
RealtimeStart ==
    /\ rtPc = "suspendedStart"
    /\ LoopHead
    /\ UNCHANGED <<rtSignal, rtSunTimes, rtTimer, rtListeners, rtYields, rtError>>

\* computeSky has resolved: `yield await computeSky(...)` hands the result over
RealtimeYield ==
    /\ rtPc = "computing"
    /\ tasks[rtCalls].pc = "done"
    /\ rtPc' = "suspendedYield"
    /\ rtYields' = rtYields + 1
    /\ UNCHANGED <<rtSignal, rtSunTimes, rtTimer, rtListeners, rtCalls, rtError, skyVars>>

\* computeSky has rejected (the sunTimes provider failed): the error leaves
\* the generator through next()
RealtimeComputeFails ==
    /\ rtPc = "computing"
    /\ tasks[rtCalls].pc = "failed"
    /\ rtPc' = "threw"
    /\ rtError' = "computeSky"
    /\ UNCHANGED <<rtSignal, rtSunTimes, rtTimer, rtListeners, rtCalls, rtYields, skyVars>>

\* the consumer's next() after a yield: the timer is set and, with a signal,
\* an abort listener added (to an aborted signal too, where it never runs)
RealtimeWait ==
    /\ rtPc = "suspendedYield"
    /\ rtPc' = "waiting"
    /\ rtTimer' = TRUE
    /\ rtListeners' = IF rtSignal # "none" THEN rtListeners + 1 ELSE rtListeners
    /\ UNCHANGED <<rtSignal, rtSunTimes, rtCalls, rtYields, rtError, skyVars>>

\* setTimeout(resolve, interval) fires: the wait ends, back to the loop head
RealtimeTimerFires ==
    /\ rtPc = "waiting"
    /\ rtTimer
    /\ rtTimer' = FALSE
    /\ LoopHead
    /\ UNCHANGED <<rtSignal, rtSunTimes, rtListeners, rtYields, rtError>>

\* controller.abort(): every attached listener runs once and is removed; the
\* listener of a wait still pending clears its timer and rejects its promise
RealtimeAbort ==
    /\ rtSignal = "live"
    /\ rtSignal' = "aborted"
    /\ rtListeners' = 0
    /\ IF rtPc = "waiting" /\ rtTimer
       THEN rtTimer' = FALSE /\ rtPc' = "waitRejected"
       ELSE UNCHANGED <<rtTimer, rtPc>>
    /\ UNCHANGED <<rtSunTimes, rtCalls, rtYields, rtError, skyVars>>

\* the rejected wait reaches .catch: an AbortError is swallowed and the loop
\* goes on to its head, anything else is thrown
RealtimeCatch ==
    /\ rtPc = "waitRejected"
    /\ IF CatchSwallows("AbortError")
       THEN LoopHead /\ UNCHANGED rtError
       ELSE rtPc' = "threw" /\ rtError' = "AbortError" /\ UNCHANGED <<rtCalls, skyVars>>
    /\ UNCHANGED <<rtSignal, rtSunTimes, rtTimer, rtListeners, rtYields>>

RealtimeStep ==
    \/ RealtimeStart
    \/ RealtimeYield
    \/ RealtimeComputeFails
    \/ RealtimeWait
    \/ RealtimeTimerFires
    \/ RealtimeAbort
    \/ RealtimeCatch

\* a step of the generator, its consumer or the signal, or a step of the
\* computeSky call in flight: the provider settling, fetchSunTimes and
\* computeSky resuming
NextRealtime ==
    \/ RealtimeStep /\ UNCHANGED <<offsetVars, renderVars, otherVars>>
    \/ SkySettles(Tasks)

\* the consumer keeps calling next(), timers fire and microtasks run (the
\* continuations of fetchSunTimes and computeSky once the provider's promise
\* has settled); nothing obliges the provider to settle, nor anybody to abort
SpecRealtime ==
    /\ InitRealtime
    /\ [][NextRealtime]_vars
    /\ WF_vars(RealtimeStart /\ UNCHANGED <<offsetVars, renderVars, otherVars>>)
    /\ WF_vars((RealtimeYield \/ RealtimeComputeFails) /\ UNCHANGED <<offsetVars, renderVars, otherVars>>)
    /\ WF_vars(RealtimeWait /\ UNCHANGED <<offsetVars, renderVars, otherVars>>)
    /\ WF_vars(RealtimeTimerFires /\ UNCHANGED <<offsetVars, renderVars, otherVars>>)
    /\ WF_vars(RealtimeCatch /\ UNCHANGED <<offsetVars, renderVars, otherVars>>)
    /\ WF_vars(\E i \in Tasks : FetchSunTimesSettles(i) \/ ComputeSkyResumes(i))

----------------------------------------------------------------------------
\* C1: for every altitude at or below -30 degrees the multiple-scattering
\* offset returned is exactly 0 (never negative).
C1_ZeroBelowMinus30 ==
    (msDone /\ RLe(msArg, Int2R(-30))) => msRet = Int2R(0)

----------------------------------------------------------------------------
(* renderGradient: which stop is which *)

StopIndices == 1..Len(rgRet.stops)

HighestPercentStops ==
    { k \in StopIndices :
        \A j \in StopIndices : RLe(rgRet.stops[j].percent, rgRet.stops[k].percent) }

LowestPercentStops ==
    { k \in StopIndices :
        \A j \in StopIndices : RLe(rgRet.stops[k].percent, rgRet.stops[j].percent) }

\* C2 as stated: topColor is the colour of the stop with the highest percent
\* and bottomColor the colour of the stop with the lowest percent.
C2_TopIsHighestPercent ==
    rgDone =>
        /\ \E k \in HighestPercentStops : rgRet.topColor = rgRet.stops[k].rgb
        /\ \E k \in LowestPercentStops : rgRet.bottomColor = rgRet.stops[k].rgb

\* C2 amended: topColor is the colour of the stop with the lowest percent (the
\* first stop after sorting, the most upward view sample) and bottomColor the
\* colour of the stop with the highest percent (the last stop, the horizon).
C2_TopIsLowestPercent ==
    rgDone =>
        /\ \E k \in LowestPercentStops : rgRet.topColor = rgRet.stops[k].rgb
        /\ \E k \in HighestPercentStops : rgRet.bottomColor = rgRet.stops[k].rgb
        /\ rgRet.topColor.view = SAMPLES - 1
        /\ rgRet.bottomColor.view = 0

C2_Witness ==
    /\ rgDone
    /\ Len(rgRet.stops) = SAMPLES
    /\ rgRet.topColor # rgRet.bottomColor
    /\ HighestPercentStops # LowestPercentStops

PercentOfView(i) ==
    { rgRet.stops[k].percent : k \in { j \in StopIndices : rgRet.stops[j].rgb.view = i } }

PercentsInRange ==
    \A k \in StopIndices :
        RLe(Int2R(0), rgRet.stops[k].percent) /\ RLe(rgRet.stops[k].percent, Int2R(100))

\* C3 as stated: the most upward view sample (i = SAMPLES - 1) is assigned
\* percent 100, the horizon-ward sample (i = 0) percent 0, and every percent
\* lies in [0, 100].
C3_UpwardIsHundred ==
    rgDone =>
        /\ PercentOfView(SAMPLES - 1) = {Int2R(100)}
        /\ PercentOfView(0) = {Int2R(0)}
        /\ PercentsInRange

\* C3 amended: the most upward view sample (i = SAMPLES - 1) is assigned
\* percent 0, the horizon-ward sample (i = 0) percent 100, and every percent
\* lies in [0, 100].
C3_UpwardIsZero ==
    rgDone =>
        /\ PercentOfView(SAMPLES - 1) = {Int2R(0)}
        /\ PercentOfView(0) = {Int2R(100)}
        /\ PercentsInRange

C3_Witness ==
    /\ rgDone
    /\ PercentOfView(SAMPLES - 1) # {}
    /\ PercentOfView(0) # {}
    /\ \E i \in ViewSamples : \E q \in PercentOfView(i) : RLt(Int2R(0), q) /\ RLt(q, Int2R(100))

\* C4: renderGradient emits exactly SAMPLES stops, one per view sample (a
\* sample whose view ray has no positive exit distance keeps zero in-scattered
\* radiance and still gets its stop), and after sorting the stops are strictly
\* ascending by percent, so no two stops share a percent.
C4_StopsCompleteAndAscending ==
    rgDone =>
        /\ Len(rgRet.stops) = SAMPLES
        /\ Len(rgRet.gradient) = SAMPLES
        /\ \A i \in 0..(SAMPLES - 1) :
              Cardinality({ k \in StopIndices : rgRet.stops[k].rgb.view = i }) = 1
        /\ \A k \in StopIndices :
              /\ rgRet.stops[k].rgb.altitude = rgArg
              /\ (rgRet.stops[k].rgb.inscattered = "zero")
                     <=> ~ViewExitsTop(rgRet.stops[k].rgb.view)
              /\ rgRet.gradient[k].rgb = rgRet.stops[k].rgb
        /\ \A k \in StopIndices :
              k + 1 \in StopIndices =>
                  RLt(rgRet.stops[k].percent, rgRet.stops[k + 1].percent)

C4_Witness ==
    /\ rgDone
    /\ Len(rgRet.stops) = SAMPLES
    /\ rgRet.stops[1].percent = Int2R(0)
    /\ rgRet.stops[SAMPLES].percent = Int2R(100)
    /\ \A k \in StopIndices : rgRet.stops[k].rgb.inscattered = "integrated"

----------------------------------------------------------------------------
(* computeSky: one call *)

Returned(i) == tasks[i].pc = "done"

\* the altitude renderGradient was called with, read off the colours returned
HandedToRender(i) == tasks[i].result[1].topColor.of.altitude

\* the altitude computeSky holds before it adds the multiple-scattering offset
BeforeOffset(i) ==
    IF tasks[i].result[1].correctedAltitude # Undefined
    THEN tasks[i].result[1].correctedAltitude[1]
    ELSE tasks[i].position[1].altitude

Lifted(i) == RAdd(BeforeOffset(i), getMultipleScatteringOffset(BeforeOffset(i)))

\* C5: with a bortle value the altitude handed to renderGradient is
\* max(a + getMultipleScatteringOffset(a), getLightPollutionAltitude(bortle)),
\* never below the floor, and for bortle = 9 it is exactly 3 degrees whenever
\* the offset-corrected altitude lies below the floor.
C5_BortleFloor ==
    \A i \in Tasks :
        (Returned(i) /\ tasks[i].bortle # Undefined) =>
            LET floor == getLightPollutionAltitude(tasks[i].bortle[1])
            IN  /\ HandedToRender(i) = RMax(Lifted(i), floor)
                /\ RLe(floor, HandedToRender(i))
                /\ (tasks[i].bortle = Some(9) /\ RLt(Lifted(i), floor)) =>
                       HandedToRender(i) = Int2R(3)

C5_Witness ==
    \E i \in Tasks :
        /\ Returned(i)
        /\ tasks[i].bortle = Some(9)
        /\ tasks[i].position[1].altitude = Int2R(-40)
        /\ RLt(Lifted(i), Int2R(3))
        /\ HandedToRender(i) = Int2R(3)

\* C6 as stated: with sunTimes disabled and no bortle, renderGradient is called
\* with exactly the raw solar altitude returned by getSunPosition.
C6_RenderedIsRaw ==
    \A i \in Tasks :
        (Returned(i) /\ tasks[i].sunTimes = Undefined /\ tasks[i].bortle = Undefined) =>
            HandedToRender(i) = tasks[i].position[1].altitude

\* C9 as stated: with sunTimes enabled, when date equals the provider's sunrise
\* time or its sunset time, correctedAltitude is exactly 0.
C9_ZeroAtSunriseAndSunset ==
    \A i \in Tasks :
        (/\ Returned(i)
         /\ tasks[i].sunTimes # Undefined
         /\ Some(tasks[i].date) \in {tasks[i].result[1].sunrise, tasks[i].result[1].sunset}) =>
            tasks[i].result[1].correctedAltitude = Some(Int2R(0))

\* C10: in every SkyResult altitude and azimuth are the ones getSunPosition
\* returned; correctedAltitude, sunrise and sunset are defined exactly when
\* sunTimes is enabled, correctedAltitude being what correctAltitude returned
\* (before the offset and the floor); a call with sunTimes disabled never
\* invokes a provider.
C10_ResultFields ==
    /\ \A i \in Tasks :
          Returned(i) =>
              LET t == tasks[i]
                  res == t.result[1]
                  sun == ephemeris[<<t.date, t.place[1]>>]
              IN  /\ res.altitude = sun.altitude
                  /\ res.azimuth = sun.azimuth
                  /\ (res.correctedAltitude # Undefined) <=> (t.sunTimes # Undefined)
                  /\ (res.sunrise # Undefined) <=> (t.sunTimes # Undefined)
                  /\ (res.sunset # Undefined) <=> (t.sunTimes # Undefined)
                  /\ t.sunTimes # Undefined =>
                        /\ res.correctedAltitude =
                               Some(correctAltitude(t.date, sun.altitude, t.fetched[1]))
                        /\ res.sunrise = Some(promises[t.awaiting].value[1].sunrise)
                        /\ res.sunset = Some(promises[t.awaiting].value[1].sunset)
    /\ \A c \in providerCalls : tasks[c.task].sunTimes # Undefined

C10_Witness ==
    \E i \in Tasks :
        /\ Returned(i)
        /\ tasks[i].sunTimes # Undefined
        /\ tasks[i].date = 330
        /\ tasks[i].result[1].correctedAltitude # Some(tasks[i].result[1].altitude)
        /\ HandedToRender(i) # tasks[i].result[1].altitude
        /\ HandedToRender(i) # tasks[i].result[1].correctedAltitude[1]
        /\ tasks[i].result[1].sunrise = Some(360)

----------------------------------------------------------------------------
(* fetchSunTimes: failures and the cache *)

\* every call that waited on a promise gets that promise's outcome
WaitersGetOutcome ==
    \A i \in Tasks :
        /\ tasks[i].pc \in {"fetchFailed", "failed"} =>
               promises[tasks[i].awaiting].state = "rejected"
        /\ (tasks[i].pc \in {"fetched", "done"} /\ tasks[i].sunTimes # Undefined) =>
               promises[tasks[i].awaiting].state = "fulfilled"

\* a rejected promise is in the cache only until the call that created it has
\* run its catch block
NoRejectedEntryStays ==
    \A k \in DOMAIN cache :
        promises[cache[k]].state = "rejected" => tasks[cache[k]].pc = "awaitFetch"

\* a call that finds no entry for its key invokes the provider
MissInvokesProvider ==
    \A i \in Tasks :
        (tasks[i].pc = "idle" /\ tasks'[i].pc = "awaitFetch"
           /\ tasks'[i].key[1] \notin DOMAIN cache) =>
            \E c \in providerCalls' \ providerCalls : c.task = i

\* an entry leaves the cache only as the rejected promise of the call that
\* created it and now handles the rejection; entries are never replaced
RemovalIsOwnFailure ==
    \A k \in DOMAIN cache :
        IF k \in DOMAIN cache'
        THEN cache'[k] = cache[k]
        ELSE /\ promises[cache[k]].state = "rejected"
             /\ tasks[cache[k]].pc = "awaitFetch"
             /\ tasks'[cache[k]].pc = "fetchFailed"

\* C8: when the provider call for a key rejects, every caller waiting on the
\* key receives the rejection, the entry is removed by the call that created
\* it (never an entry a later call created), and a call that then finds the
\* key absent invokes the provider again.
C8_FailureNotCached ==
    /\ [](WaitersGetOutcome /\ NoRejectedEntryStays)
    /\ [][MissInvokesProvider /\ RemovalIsOwnFailure]_vars

\* a call failed and removed its entry, a second call was handed the same
\* rejection, and a third call with the same key invoked the provider again
C8_Witness ==
    \E i, j, k \in Tasks :
        /\ tasks[i].pc = "failed" /\ tasks[i].creator
        /\ tasks[j].pc = "failed" /\ ~tasks[j].creator /\ tasks[j].awaiting = i
        /\ tasks[k].creator /\ tasks[k].key = tasks[i].key /\ k # i
        /\ cache[tasks[k].key[1]] = k
        /\ Cardinality({ c \in providerCalls : c.task \in {i, k} }) = 2


----------------------------------------------------------------------------
\* C7: once the signal is aborted realtimeSky starts no further computeSky
\* call (no call leaves idle, no provider is invoked) and yields nothing but
\* the result of a call already in flight; no AbortError ever reaches the
\* consumer; and, the consumer going on to call next(), a generator that is
\* aborted before it has ended eventually completes normally, with no
\* result at all when the abort came before the first next().
AfterAbortNothingNew ==
    rtSignal = "aborted" =>
        /\ rtCalls' = rtCalls
        /\ providerCalls' = providerCalls
        /\ \A i \in Tasks : tasks[i].pc = "idle" => tasks'[i].pc = "idle"
        /\ rtYields' # rtYields => rtPc = "computing" /\ rtYields' = rtYields + 1

NoAbortErrorDelivered == rtError # "AbortError"

\* the generator has returned
Finished == rtPc = "completed" /\ rtError = "none"

C7_AbortEndsGenerator ==
    /\ [][AfterAbortNothingNew]_vars
    /\ [](NoAbortErrorDelivered /\ rtYields <= rtCalls)
    /\ ((rtSignal = "aborted" /\ rtPc # "threw") ~> Finished)
    /\ ((rtSignal = "aborted" /\ rtPc = "suspendedStart")
            ~> (Finished /\ rtCalls = 0 /\ rtYields = 0))

----------------------------------------------------------------------------
\* C11: the exposure is 6 for sunHeight <= -0.15, the smoothstep from 6 to 35
\* on (-0.15, 0], the smoothstep from 35 to 18 on (0, 0.4] and exactly 18
\* above 0.4, so for every altitude in (pi/6, pi/2), whose sine exceeds 1/2;
\* it is 35 at sunHeight 0 (altitude 0), and at -0.15, 0 and 0.4 the two
\* adjacent pieces give the same value.
Cubic(x) == RSub(RMul(Int2R(3), RMul(x, x)), RMul(Int2R(2), RMul(x, RMul(x, x))))

Blend(from, to, s) == RAdd(Int2R(from), RMul(s, Int2R(to - from)))

ExpectedExposure(h) ==
    CASE RLe(h, R(-3, 20)) -> Int2R(6)
      [] RLt(R(-3, 20), h) /\ RLe(h, Int2R(0)) ->
            Blend(6, 35, Cubic(RDiv(RAdd(h, R(3, 20)), R(3, 20))))
      [] RLt(Int2R(0), h) /\ RLe(h, R(2, 5)) ->
            Blend(35, 18, Cubic(RDiv(h, R(2, 5))))
      [] RLt(R(2, 5), h) -> Int2R(18)

C11_ExposurePiecewise ==
    exDone =>
        /\ exRet = ExpectedExposure(exArg)
        /\ RLt(R(1, 2), exArg) => exRet = Int2R(18)
        /\ exArg = Int2R(0) => exRet = Int2R(35)
        /\ exArg = R(-3, 20) => exRet = Int2R(6) /\ ExposureTwilight(exArg) = exRet
        /\ exArg = Int2R(0) => ExposureTwilight(exArg) = exRet /\ ExposureLowSun(exArg) = exRet
        /\ exArg = R(2, 5) => exRet = Int2R(18) /\ ExposureLowSun(exArg) = exRet
        /\ RLe(Int2R(6), exRet) /\ RLe(exRet, Int2R(35))

\* the exposure was computed strictly inside the low-sun blend
C11_Witness ==
    /\ exDone
    /\ exArg = R(1, 5)
    /\ exRet = R(53, 2)


----------------------------------------------------------------------------
\* C12: getMultipleScatteringOffset is continuous across its branch
\* boundaries: at exactly 20 degrees it returns 2 degrees, the value of the
\* high-sun branch; at -6 degrees the two adjacent branches both give 8
\* degrees and at -12 degrees both give 11 degrees; next to a boundary the
\* offset moves by less than the altitude does.
GridStep == R(1, AltGrid)

Within(x, y) == RLe(RSub(x, y), GridStep) /\ RLe(RSub(y, x), GridStep)

CloseOnBothSides(a, value) ==
    /\ Within(getMultipleScatteringOffset(RAdd(a, GridStep)), value)
    /\ Within(getMultipleScatteringOffset(RSub(a, GridStep)), value)

C12_ContinuousAtBoundaries ==
    msDone =>
        /\ msArg = Int2R(20) =>
              /\ msRet = Int2R(2)
              /\ TwilightOffset(msArg) = HighSunOffset
              /\ CloseOnBothSides(msArg, msRet)
        /\ msArg = Int2R(-6) =>
              /\ msRet = Int2R(8)
              /\ TwilightOffset(msArg) = Int2R(8)
              /\ CivilOffset(msArg) = Int2R(8)
              /\ CloseOnBothSides(msArg, msRet)
        /\ msArg = Int2R(-12) =>
              /\ msRet = Int2R(11)
              /\ CivilOffset(msArg) = Int2R(11)
              /\ DeepTwilightOffset(msArg) = Int2R(11)
              /\ CloseOnBothSides(msArg, msRet)

\* the offset was computed at the boundary of -6 degrees
C12_Witness ==
    /\ msDone
    /\ msArg = Int2R(-6)
    /\ msRet = Int2R(8)


----------------------------------------------------------------------------
\* C14: altitude + getMultipleScatteringOffset(altitude) is strictly
\* increasing in altitude over the whole domain, the branch boundaries at
\* 20, -6, -12 and -30 degrees included: a higher sun is never rendered as a
\* lower one.
Scattered(a) == RAdd(a, getMultipleScatteringOffset(a))

C14_StrictlyIncreasing ==
    msDone =>
        \A b \in AltitudeInputs :
            /\ RLt(msArg, b) => RLt(RAdd(msArg, msRet), Scattered(b))
            /\ RLt(b, msArg) => RLt(Scattered(b), RAdd(msArg, msRet))

\* the offset was computed in the middle of the civil branch, where it
\* falls fastest
C14_Witness ==
    /\ msDone
    /\ msArg = Int2R(-9)
    /\ msRet = R(19, 2)


----------------------------------------------------------------------------
\* C15: for any interleaving of fetchSunTimes calls that share a cache key,
\* as long as no provider invocation for the key has failed the provider is
\* invoked at most once for it, every call for the key that has its result,
\* whether it arrived while the first was pending or later, has the same
\* SunTimes, and an entry whose promise is pending or fulfilled is never
\* removed from the cache or replaced.
KeysInUse == { tasks[i].key[1] : i \in { j \in Tasks : tasks[j].key # Undefined } }

CallsFor(k) == { c \in providerCalls : tasks[c.task].key = Some(k) }

NoFailureFor(k) == \A c \in CallsFor(k) : promises[c.task].state # "rejected"

HasSunTimes(i) == tasks[i].pc \in {"fetched", "done"} /\ tasks[i].fetched # Undefined

ProviderOncePerKey ==
    \A k \in KeysInUse :
        NoFailureFor(k) =>
            /\ Cardinality(CallsFor(k)) <= 1
            /\ \A i, j \in Tasks :
                  (tasks[i].key = Some(k) /\ tasks[j].key = Some(k)
                     /\ HasSunTimes(i) /\ HasSunTimes(j)) =>
                        tasks[i].fetched = tasks[j].fetched

GoodEntryStays ==
    \A k \in DOMAIN cache :
        promises[cache[k]].state \in {"pending", "fulfilled"} =>
            k \in DOMAIN cache' /\ cache'[k] = cache[k]

C15_ProviderOncePerKey == []ProviderOncePerKey /\ [][GoodEntryStays]_vars

\* three calls with one key, served by a single provider invocation
C15_Witness ==
    /\ \A i \in 1..3 : tasks[i].pc = "done" /\ tasks[i].key = tasks[1].key
    /\ tasks[1].place # tasks[2].place
    /\ Cardinality(providerCalls) = 1
    /\ tasks[3].result[1].sunrise = tasks[1].result[1].sunrise


----------------------------------------------------------------------------
\* C16: an abort always cuts the interval wait short: once the signal is
\* aborted, whether the abort came during the wait, during computeSky or
\* while the generator was suspended at a yield, no interval timer is left
\* pending, so the generator never sits out a full interval.
C16_AbortCutsWaitShort == rtSignal = "aborted" => ~rtTimer

----------------------------------------------------------------------------
\* C17: at any moment at most one abort listener registered by realtimeSky
\* is attached to the signal: the listener of a wait that the timer ended is
\* attached no longer, however many iterations have run.
C17_AtMostOneListener ==
    /\ rtListeners <= 1
    /\ rtPc \notin {"waiting", "waitRejected"} => rtListeners = 0


----------------------------------------------------------------------------
\* C18: the ramp correctAltitude returns the altitude unchanged whenever
\* sunrise <= now <= sunset, whenever sunset <= sunrise, and whenever now is
\* more than 60 minutes before sunrise or after sunset; otherwise it returns
\* the altitude lowered by an amount in [0, 0.5 degrees]: the result never
\* exceeds the input nor falls more than 0.5 degrees below it.
Lowering == RSub(caArg.sunAltitude, caRet)

RampLeavesAlone ==
    \/ caArg.sunrise <= caArg.now /\ caArg.now <= caArg.sunset
    \/ caArg.sunset <= caArg.sunrise
    \/ caArg.now < caArg.sunrise - 60
    \/ caArg.now > caArg.sunset + 60

C18_RampBounds ==
    caDone =>
        /\ RampLeavesAlone => caRet = caArg.sunAltitude
        /\ RLe(Int2R(0), Lowering)
        /\ RLe(Lowering, R(1, 2))

\* half an hour before sunrise the altitude was lowered by a quarter degree
C18_Witness ==
    /\ caDone
    /\ caArg.sunrise < caArg.sunset
    /\ caArg.now = caArg.sunrise - 30
    /\ Lowering = R(1, 4)


----------------------------------------------------------------------------
\* C19: the smoothstep correctAltitude blends over a fixed 30-minute window
\* centered on the midpoint between sunrise and sunset: with sunset later
\* than sunrise the offset subtracted is exactly the sun's altitude at
\* sunrise at every time before the window (more than 15 minutes before the
\* midpoint), exactly its altitude at sunset at every time after it, and
\* between the two only inside the 30 minutes.
Subtracted == RSub(caArg.sunAltitude, caRet)

FromMidpoint == 2 * caArg.now - (caArg.sunrise + caArg.sunset)

C19_ThirtyMinuteWindow ==
    (caDone /\ caArg.sunrise < caArg.sunset) =>
        /\ FromMidpoint < -30 => Subtracted = caArg.sunriseOffset
        /\ FromMidpoint > 30 => Subtracted = caArg.sunsetOffset
        /\ RLe(RMin(caArg.sunriseOffset, caArg.sunsetOffset), Subtracted)
        /\ RLe(Subtracted, RMax(caArg.sunriseOffset, caArg.sunsetOffset))


----------------------------------------------------------------------------
\* C20: two fetchSunTimes calls are served by the same cached result exactly
\* when their keys agree, the key being the rounded latitude and longitude,
\* the local date string and the provider identity: a call whose coordinates
\* round like those of an earlier cached call (same date and provider) gets
\* the sun times fetched for the earlier coordinates without invoking the
\* provider, and two custom providers share an entry only if they are the
\* same provider.
Fetching == { i \in Tasks : tasks[i].key # Undefined }

SameEntry(i, j) == tasks[i].awaiting = tasks[j].awaiting

ServedFromCache(i) == i \in Fetching /\ ~tasks[i].creator

C20_KeyIsPlaceDateProvider ==
    /\ \A i \in Fetching :
          tasks[i].key[1] =
              <<MathRound(tasks[i].place[1].latitude), MathRound(tasks[i].place[1].longitude),
                LocalDateString(tasks[i].date, tasks[i].place[1].longitude),
                ProviderId(tasks[i].sunTimes[1])>>
    /\ \A i, j \in Fetching : SameEntry(i, j) => tasks[i].key = tasks[j].key
    /\ \A i \in Tasks :
          ServedFromCache(i) =>
              /\ \A c \in providerCalls : c.task # i
              /\ \E c \in providerCalls :
                    /\ c.task = tasks[i].awaiting
                    /\ c.latitude = tasks[c.task].place[1].latitude
                    /\ c.longitude = tasks[c.task].place[1].longitude
    /\ \A i, j \in Fetching : SameEntry(i, j) => tasks[i].sunTimes = tasks[j].sunTimes

====
